---- MODULE Spec2Model ----
(***************************************************************************)
(* mdx-local-link-checker (src/index.js): a model of the run of the script *)
(* over a small corpus.                                                    *)
(*                                                                         *)
(* Strings are sequences of lexemes.  A lexeme is either one of the        *)
(* punctuation characters the regular expressions and path functions of    *)
(* the script tell apart ("/", "#", ":", ".") or a maximal run of other    *)
(* characters ("index", "mdx", "valueOf").  Every concatenation in the     *)
(* script puts a punctuation character at the seam, so the sequences stay  *)
(* in that form.                                                           *)
(***************************************************************************)
EXTENDS Integers, Sequences, FiniteSets, TLC

(***************************************************************************)
(* Bounds of the model.                                                    *)
(***************************************************************************)
\* The documents of the corpus hold at most MaxConstructs constructs together.
MaxConstructs == 2

(***************************************************************************)
(* Generic string helpers (JavaScript String / RegExp primitives).         *)
(***************************************************************************)
Last(s) == s[Len(s)]

StartsWith(s, p) == Len(s) >= Len(p) /\ SubSeq(s, 1, Len(p)) = p

\* Positions of the lexeme c in s.
Positions(s, c) == {i \in 1..Len(s) : s[i] = c}

MinOf(S) == CHOOSE x \in S : \A y \in S : x <= y

MaxOf(S) == CHOOSE x \in S : \A y \in S : x >= y

\* String.prototype.split(sep): the pieces of s between the lexemes sep.
RECURSIVE SplitOn(_, _)
SplitOn(s, sep) ==
    IF Positions(s, sep) = {} THEN <<s>>
    ELSE LET i == MinOf(Positions(s, sep))
         IN  <<SubSeq(s, 1, i - 1)>> \o SplitOn(SubSeq(s, i + 1, Len(s)), sep)

\* Array.prototype.join(sep).
RECURSIVE JoinWith(_, _)
JoinWith(parts, sep) ==
    IF parts = <<>> THEN <<>>
    ELSE IF Len(parts) = 1 THEN parts[1]
    ELSE parts[1] \o <<sep>> \o JoinWith(Tail(parts), sep)

(***************************************************************************)
(* node:path, POSIX flavour.                                               *)
(***************************************************************************)
\* process.cwd()
Cwd == <<"/", "w">>

DotDot == <<".", ".">>

\* normalizeString of node:path: folds the segments of a path from left to
\* right, dropping "" and ".", and letting ".." remove the segment before it.
\* Above the start, ".." is kept for relative paths and dropped for absolute.
RECURSIVE NormalizeSegs(_, _, _)
NormalizeSegs(segs, acc, allowAboveRoot) ==
    IF segs = <<>> THEN acc
    ELSE LET seg == Head(segs)
             rest == Tail(segs)
         IN  IF seg = <<>> \/ seg = <<".">>
             THEN NormalizeSegs(rest, acc, allowAboveRoot)
             ELSE IF seg = DotDot
             THEN IF acc # <<>> /\ Last(acc) # DotDot
                  THEN NormalizeSegs(rest, SubSeq(acc, 1, Len(acc) - 1), allowAboveRoot)
                  ELSE IF allowAboveRoot
                  THEN NormalizeSegs(rest, Append(acc, seg), allowAboveRoot)
                  ELSE NormalizeSegs(rest, acc, allowAboveRoot)
             ELSE NormalizeSegs(rest, Append(acc, seg), allowAboveRoot)

IsAbsolute(p) == p # <<>> /\ p[1] = "/"

\* The end of path.normalize: the normalized segments body of a path that
\* was absolute or not and had a trailing slash or not.
Normalized(body, abs, trailing) ==
    IF body = <<>>
    THEN IF abs THEN <<"/">> ELSE IF trailing THEN <<".", "/">> ELSE <<".">>
    ELSE (IF abs THEN <<"/">> ELSE <<>>) \o body
         \o (IF trailing THEN <<"/">> ELSE <<>>)

\* path.normalize(p)
PathNormalize(p) ==
    IF p = <<>> THEN <<".">>
    ELSE Normalized(JoinWith(NormalizeSegs(SplitOn(p, "/"), <<>>, ~IsAbsolute(p)), "/"),
                    IsAbsolute(p), Last(p) = "/")

\* path.join(a, b): the non-empty arguments joined by "/" and normalized.
PathJoin(a, b) ==
    IF a = <<>> /\ b = <<>> THEN <<".">>
    ELSE IF a = <<>> THEN PathNormalize(b)
    ELSE IF b = <<>> THEN PathNormalize(a)
    ELSE PathNormalize(a \o <<"/">> \o b)

\* path.resolve(p): p made absolute against the working directory, normalized,
\* without a trailing slash.
PathResolve(p) ==
    LET full == IF IsAbsolute(p) THEN p ELSE Cwd \o <<"/">> \o p
    IN  <<"/">> \o JoinWith(NormalizeSegs(SplitOn(full, "/"), <<>>, FALSE), "/")

(***************************************************************************)
(* The regular expressions of fillCache.                                   *)
(***************************************************************************)
IndexDoc == <<"index", ".", "mdx">>

\* /^https?:\/\//
IsHttp(m) ==
    /\ Len(m) >= 4
    /\ m[1] \in {"http", "https"}
    /\ SubSeq(m, 2, 4) = <<":", "/", "/">>

\* /^#/
IsAnchorLink(m) == m # <<>> /\ m[1] = "#"

\* /^\//
IsRootRelativeLink(m) == m # <<>> /\ m[1] = "/"

\* /^[^:]+:.*/ : a colon with at least one character before it.
IsScheme(m) == \E i \in Positions(m, ":") : i >= 2

\* [a-zA-Z0-9._,-]* : a run without "/", "#" or ":".
FragmentChars(f) == \A i \in 1..Len(f) : f[i] \notin {"/", "#", ":"}

\* /\.mdx?$/
EndsInDocExt(m) ==
    /\ Len(m) >= 2
    /\ m[Len(m) - 1] = "."
    /\ Last(m) \in {"mdx", "md"}

\* /\.mdx?(#[a-zA-Z0-9._,-]*)?$/
HasDocExt(m) ==
    \/ EndsInDocExt(m)
    \/ \E i \in Positions(m, "#") :
          /\ EndsInDocExt(SubSeq(m, 1, i - 1))
          /\ FragmentChars(SubSeq(m, i + 1, Len(m)))

\* The alternation of line 98: links the index rewrite leaves alone.
SkipsIndexRewrite(m) == IsHttp(m) \/ IsAnchorLink(m) \/ IsScheme(m) \/ HasDocExt(m)

\* /\/$/
EndsInSlash(m) == m # <<>> /\ Last(m) = "/"

\* /\/#[^/]+$/ : the set of positions of a "/" directly followed by "#" and a
\* non-empty rest without "/" (there is at most one).
SlashFragmentAt(m) ==
    {i \in Positions(m, "/") :
        /\ i + 2 <= Len(m)
        /\ m[i + 1] = "#"
        /\ Positions(SubSeq(m, i + 2, Len(m)), "/") = {}}

\* Lines 96-106: a directory link gets the index document.
IndexRewrite(m) ==
    IF SkipsIndexRewrite(m) THEN m
    ELSE IF EndsInSlash(m) THEN m \o IndexDoc
    ELSE IF SlashFragmentAt(m) # {}
    THEN LET i == MinOf(SlashFragmentAt(m))
         IN  SubSeq(m, 1, i) \o IndexDoc \o SubSeq(m, i + 1, Len(m))
    ELSE m

\* filePath.match(/^(.+\/)[^/]+$/)?.[1] ; "undefined" is what the string
\* concatenation of line 128 makes of a failed match.
FilePathBase(filePath) ==
    LET slashes == Positions(filePath, "/")
    IN  IF slashes # {} /\ MaxOf(slashes) >= 2 /\ MaxOf(slashes) < Len(filePath)
        THEN SubSeq(filePath, 1, MaxOf(slashes))
        ELSE <<"undefined">>

\* Lines 115-129: the original and the absolute form of an internal link,
\* given the link after the index rewrite.
ResolveRelative(filePath, m) == PathResolve(FilePathBase(filePath) \o <<"/">> \o m)

\* ResolveInternal with the root-relative branch forgetting the base path.
ResolveInternalNoBase(m, filePath, base) ==
    IF IsAnchorLink(m)
    THEN [original |-> filePath \o m,
          absolute |-> PathResolve(PathNormalize(filePath \o m))]
    ELSE IF IsRootRelativeLink(m)
    THEN [original |-> m, absolute |-> PathResolve(m)]
    ELSE [original |-> m, absolute |-> ResolveRelative(filePath, m)]

ResolveInternal(m, filePath, base) ==
    IF IsAnchorLink(m)
    THEN [original |-> filePath \o m,
          absolute |-> PathResolve(PathNormalize(filePath \o m))]
    ELSE IF IsRootRelativeLink(m)
    THEN [original |-> m, absolute |-> PathResolve(PathJoin(base, m))]
    ELSE [original |-> m, absolute |-> ResolveRelative(filePath, m)]

\* An element of internalLinks (lines 131-134).  The field raw is a history
\* field: the matched string before any rewrite.
WithRaw(r, raw) == [original |-> r.original, absolute |-> r.absolute, raw |-> raw]

\* AddLink without the branch of line 112.
AddLinkNoScheme(entry, raw, m, filePath, base) ==
    IF IsHttp(m)
    THEN [entry EXCEPT !.externalLinks = Append(@, m)]
    ELSE [entry EXCEPT !.internalLinks =
              Append(@, WithRaw(ResolveInternal(m, filePath, base), raw))]

\* Lines 108-135: what the link match raw, rewritten to m, adds to the entry.
AddLink(entry, raw, m, filePath, base) ==
    IF IsHttp(m)
    THEN [entry EXCEPT !.externalLinks = Append(@, m)]
    ELSE IF IsScheme(m) THEN entry
    ELSE [entry EXCEPT !.internalLinks =
              Append(@, WithRaw(ResolveInternal(m, filePath, base), raw))]

(***************************************************************************)
(* Documents.  The text of a document is a sequence of constructs:         *)
(*   "link"     [text](val)          a markdown link                       *)
(*   "a"        <a href="val">       an attribute written in the source    *)
(*   "heading"  ## val               a heading, slugged by remark-slug     *)
(*   "fence"    ``` <a href="val"> ```  a fenced code block                *)
(*   "bad"      source that mdx.sync rejects                               *)
(* The two regular expressions of fillCache see a text as its sequence of  *)
(* attribute occurrences [attr, val].                                      *)
(***************************************************************************)
RECURSIVE SelectConstructs(_, _)
SelectConstructs(body, kinds) ==
    IF body = <<>> THEN <<>>
    ELSE IF Head(body).kind \in kinds
    THEN <<Head(body)>> \o SelectConstructs(Tail(body), kinds)
    ELSE SelectConstructs(Tail(body), kinds)

\* removeMarkdownCodeBlocks
RemoveMarkdownCodeBlocks(body) ==
    SelectConstructs(body, {"link", "a", "heading", "bad"})

\* mdx.sync with remark-slug: fails on a malformed document.
RenderFails(markdown) == \E i \in 1..Len(markdown) : markdown[i].kind = "bad"

Attr(c) ==
    IF c.kind = "heading" THEN [attr |-> "id", val |-> c.val]
    ELSE [attr |-> "href", val |-> c.val]

\* Attribute occurrences of the rendered form: links, headings and attributes.
JsxAttrs(markdown) ==
    LET cs == SelectConstructs(markdown, {"link", "a", "heading"})
    IN  [i \in 1..Len(cs) |-> Attr(cs[i])]

\* Attribute occurrences of the code-stripped source: written attributes only.
MarkdownAttrs(markdown) ==
    LET cs == SelectConstructs(markdown, {"a"})
    IN  [i \in 1..Len(cs) |-> Attr(cs[i])]

(***************************************************************************)
(* fillCache: the two String.replace passes over one text.                 *)
(***************************************************************************)
RECURSIVE FillIds(_, _)
FillIds(ids, attrs) ==
    IF attrs = <<>> THEN ids
    ELSE FillIds(IF Head(attrs).attr \in {"id", "name"}
                 THEN ids \cup {Head(attrs).val} ELSE ids,
                 Tail(attrs))

\* Lines 93-139: the callback of the link pass on one attribute occurrence.
FillLink(entry, a, filePath, base) ==
    IF a.attr \notin {"href", "to", "src"} THEN entry
    ELSE AddLink(entry, a.val, IndexRewrite(a.val), filePath, base)

RECURSIVE FillLinks(_, _, _, _)
FillLinks(entry, attrs, filePath, base) ==
    IF attrs = <<>> THEN entry
    ELSE FillLinks(FillLink(entry, Head(attrs), filePath, base),
                   Tail(attrs), filePath, base)

FillCache(entry, attrs, filePath, base) ==
    FillLinks([entry EXCEPT !.ids = FillIds(@, attrs)], attrs, filePath, base)

(***************************************************************************)
(* The file system of the run and the inputs of the script.                *)
(***************************************************************************)
FileA == <<"/", "w", "/", "a", ".", "mdx">>

FileB == <<"/", "w", "/", "d", "/", "b", ".", "mdx">>

FileP == <<"/", "w", "/", "d", "/", "i", ".", "png">>

\* The documents, whose text is an input, and all files, in walk order.
DocFiles == {FileA, FileB}

AllFiles == <<FileA, FileB, FileP>>

AnchorX == <<"#", "x">>

AnchorProto == <<"#", "valueOf">>

DirLink == <<".", "/", "s", "/">>

DirFragLink == <<".", "/", "s", "/", "#", "x">>

RootLink == <<"/", "a">>

UpLink == <<".", ".", "/", "a", ".", "mdx", "#", "x">>

HttpLink == <<"http", ":", "/", "/", "e">>

MailLink == <<"mailto", ":", "e">>

PngLink == <<"i", ".", "png">>

BackLink == <<"/", "d", "/", "b", ".", "mdx">>

Constructs ==
    {[kind |-> "link", val |-> v] :
        v \in {AnchorX, AnchorProto, DirFragLink, RootLink, UpLink,
               HttpLink, MailLink, PngLink, BackLink}}
    \cup {[kind |-> "a", val |-> DirLink],
          [kind |-> "fence", val |-> DirLink],
          [kind |-> "heading", val |-> <<"x">>],
          [kind |-> "bad", val |-> <<>>]}

RECURSIVE SeqsUpTo(_, _)
SeqsUpTo(S, n) ==
    IF n = 0 THEN {<<>>}
    ELSE LET shorter == SeqsUpTo(S, n - 1)
         IN  shorter \cup {Append(b, c) : b \in {t \in shorter : Len(t) = n - 1}, c \in S}

Bodies == SeqsUpTo(Constructs, MaxConstructs)

Dirs == {<<".">>, <<"d">>}

\* process.argv[4] when absent
NoPattern == <<>>

IgnorePatterns == {NoPattern, AnchorX, RootLink}

VARIABLES
    fs,            \* the text of every document file
    dir,           \* process.argv[2] || '.'
    basepath,      \* process.argv[3] || '.'
    ignorePattern, \* process.argv[4]
    cache,         \* the cache entries, in insertion order
    exitCode,
    errors,        \* the messages of line 189
    stderr,        \* the lines written by console.error
    pc,            \* "walk", "check", "done" (process.exit), "aborted" (throw)
    exitStatus,    \* the exit status of the process, Running until it ends
    walkIdx,       \* position of filePaths.forEach
    forInKeys,     \* the keys the for-in loop of line 191 enumerates
    fileIdx,       \* position of the for-in loop
    linkIdx,       \* position of internalLinks.forEach
    existsCalls,   \* history: the arguments of existsSync
    readCalls,     \* history: the arguments of readFileIntoCache
    firstRun       \* history: what an earlier run on the same inputs wrote and
                   \* the status it ended with, NoRun in the first run

inputs == <<fs, dir, basepath, ignorePattern>>

vars == <<fs, dir, basepath, ignorePattern, cache, exitCode, errors, stderr, pc,
          exitStatus, walkIdx, forInKeys, fileIdx, linkIdx, existsCalls, readCalls,
          firstRun>>

\* existsSync: true of a file and of a directory.
IsDirectory(p) ==
    \E i \in 1..Len(AllFiles) : StartsWith(AllFiles[i], p \o <<"/">>)

StripTrailingSlash(p) ==
    IF Len(p) > 1 /\ Last(p) = "/" THEN SubSeq(p, 1, Len(p) - 1) ELSE p

ExistsSync(p) ==
    LET q == StripTrailingSlash(p)
    IN  \/ IsDirectory(q)
        \/ /\ ~EndsInSlash(p)
           /\ \E i \in 1..Len(AllFiles) : AllFiles[i] = q

\* walkSync(d, { directories: false }): the files below d, relative to d.
RECURSIVE WalkFrom(_, _)
WalkFrom(files, root) ==
    IF files = <<>> THEN <<>>
    ELSE IF StartsWith(Head(files), root \o <<"/">>)
    THEN <<SubSeq(Head(files), Len(root) + 2, Len(Head(files)))>>
         \o WalkFrom(Tail(files), root)
    ELSE WalkFrom(Tail(files), root)

WalkSync(d) == WalkFrom(AllFiles, PathResolve(d))

\* filePaths of line 75
filePaths == WalkSync(dir)

\* micromatch.isMatch for a pattern without glob metacharacters.
IsMatch(str, pattern) == str = pattern

\* The properties every object literal inherits from Object.prototype.
ObjectPrototypeKeys ==
    {<<"constructor">>, <<"toString">>, <<"toLocaleString">>, <<"valueOf">>,
     <<"hasOwnProperty">>, <<"isPrototypeOf">>, <<"propertyIsEnumerable">>,
     <<"__proto__">>, <<"__defineGetter__">>, <<"__defineSetter__">>,
     <<"__lookupGetter__">>, <<"__lookupSetter__">>}

\* ids[targetId] of line 219, read as a condition.
HasId(ids, targetId) == targetId \in ids \/ targetId \in ObjectPrototypeKeys

(***************************************************************************)
(* The cache: a JavaScript object, i.e. its entries in insertion order.    *)
(***************************************************************************)
CacheIndex(c, key) ==
    IF \E i \in 1..Len(c) : c[i].filePathAbs = key
    THEN CHOOSE i \in 1..Len(c) : c[i].filePathAbs = key
    ELSE 0

InCache(c, key) == CacheIndex(c, key) # 0

CacheKeys(c) == [i \in 1..Len(c) |-> c[i].filePathAbs]

\* filePath.split('.').pop()
FileExt(filePath) == Last(SplitOn(filePath, "."))

\* IsDocExt that lets every extension through.
IsDocExtAny(ext) == TRUE

IsDocExt(ext) == ext \in {<<"mdx">>, <<"md">>}

\* Lines 169-177: the cache with an entry for the file.
EnsureEntry(c, filePath, filePathAbs) ==
    IF InCache(c, filePathAbs) THEN c
    ELSE Append(c, [filePath |-> filePath, filePathAbs |-> filePathAbs,
                    externalLinks |-> <<>>, internalLinks |-> <<>>, ids |-> {}])

\* Lines 179-180: fillCache on the rendered form, then on the source.
FillEntry(c, i, markdown, filePath, base) ==
    [c EXCEPT ![i] = FillCache(FillCache(@, JsxAttrs(markdown), filePath, base),
                               MarkdownAttrs(markdown), filePath, base)]

\* FillEntryOf that fills the first record of the cache, whatever the file.
FillEntryOfFirst(c, filePath, filePathAbs, markdown, base) ==
    FillEntry(c, 1, markdown, filePath, base)

FillEntryOf(c, filePath, filePathAbs, markdown, base) ==
    FillEntry(c, CacheIndex(c, filePathAbs), markdown, filePath, base)

\* Lines 155-180: rendering the code-stripped text markdown and filling the
\* cache from it.
RenderAndFill(c, filePath, filePathAbs, markdown, base) ==
    IF RenderFails(markdown) THEN [threw |-> TRUE, cache |-> c]
    ELSE [threw |-> FALSE,
          cache |-> FillEntryOf(EnsureEntry(c, filePath, filePathAbs),
                                filePath, filePathAbs, markdown, base)]

\* readFileSync(filePathAbs).toString(): the text of a document; a file that
\* is no document holds none of the constructs.
FileText(filePathAbs) ==
    IF filePathAbs \in DOMAIN fs THEN fs[filePathAbs] ELSE <<>>

\* Lines 151-153
ReadDocument(c, filePath, filePathAbs, base) ==
    RenderAndFill(c, filePath, filePathAbs,
                  RemoveMarkdownCodeBlocks(FileText(filePathAbs)), base)

\* readFileIntoCache (lines 143-181).  The result tells whether the call threw
\* and gives the cache it leaves.
ReadFileIntoCache(c, filePath, base) ==
    IF ~IsDocExt(FileExt(filePath)) THEN [threw |-> FALSE, cache |-> c]
    ELSE ReadDocument(c, filePath, PathResolve(filePath), base)

ParseError(filePath) ==
    [kind |-> "Unable to parse mdx to jsx", link |-> <<>>, file |-> filePath,
     occ |-> <<0, 0>>]

Running == -1

\* The exit status node gives a process that ends by an uncaught exception.
UncaughtStatus == 1

TotalLen(f) == Len(f[FileA]) + Len(f[FileB])

NoRun == [stderr |-> <<>>, exitStatus |-> Running]

Init ==
    /\ fs \in {f \in [DocFiles -> Bodies] : TotalLen(f) <= MaxConstructs}
    /\ dir \in Dirs
    /\ basepath \in Dirs
    /\ ignorePattern \in IgnorePatterns
    /\ cache = <<>>
    /\ exitCode = 0
    /\ errors = <<>>
    /\ stderr = <<>>
    /\ pc = "walk"
    /\ exitStatus = Running
    /\ walkIdx = 1
    /\ forInKeys = <<>>
    /\ fileIdx = 1
    /\ linkIdx = 1
    /\ existsCalls = {}
    /\ readCalls = <<>>
    /\ firstRun = NoRun

\* The effect of readFileIntoCache(filePath) with result r in the walk.
Walked(filePath, r) ==
    /\ readCalls' = Append(readCalls, filePath)
    /\ cache' = r.cache
    /\ IF r.threw
       THEN /\ pc' = "aborted"
            /\ stderr' = Append(stderr, ParseError(filePath))
            /\ exitStatus' = UncaughtStatus
       ELSE /\ pc' = pc
            /\ UNCHANGED <<stderr, exitStatus>>

WalkPath(filePath) == Walked(filePath, ReadFileIntoCache(cache, filePath, basepath))

\* Lines 183-186: one call of the callback of filePaths.forEach.
WalkFile ==
    /\ pc = "walk"
    /\ walkIdx <= Len(filePaths)
    /\ WalkPath(PathJoin(dir, filePaths[walkIdx]))
    /\ walkIdx' = walkIdx + 1
    /\ UNCHANGED <<inputs, exitCode, errors, forInKeys, fileIdx, linkIdx, existsCalls,
                   firstRun>>

\* Lines 188-191: the for-in loop fixes the keys it enumerates when it starts;
\* a key added to the object later is not enumerated.
BeginCheck ==
    /\ pc = "walk"
    /\ walkIdx > Len(filePaths)
    /\ pc' = "check"
    /\ forInKeys' = CacheKeys(cache)
    /\ fileIdx' = 1
    /\ linkIdx' = 1
    /\ errors' = <<>>
    /\ UNCHANGED <<inputs, cache, exitCode, stderr, exitStatus, walkIdx,
                   existsCalls, readCalls, firstRun>>

\* The entry the for-in loop is at, and the link its forEach is at.
CurrentEntry == cache[CacheIndex(cache, forInKeys[fileIdx])]

\* link.absolute.split('#')
TargetFile(link) == SplitOn(link.absolute, "#")[1]

TargetId(link) ==
    LET parts == SplitOn(link.absolute, "#")
    IN  IF Len(parts) >= 2 THEN parts[2] ELSE <<>>

\* Line 198
Ignored(link) == ignorePattern # NoPattern /\ IsMatch(link.original, ignorePattern)

LinkMessage(link, filePathAbs) ==
    [kind |-> "Link is broken", link |-> link.absolute, file |-> filePathAbs]

AnchorMessage(link, filePathAbs) ==
    [kind |-> "Anchor of link is broken", link |-> link.original, file |-> filePathAbs]

\* Includes that never finds the message: no deduplication.
IncludesNever(seq, x) == FALSE

Includes(seq, x) == \E i \in 1..Len(seq) : seq[i] = x

\* A line of stderr: the message and, as history, the occurrence it is about.
Line(msg, occ) ==
    [kind |-> msg.kind, link |-> msg.link, file |-> msg.file, occ |-> occ]

\* AnchorBroken with the negation of the identifier lookup lost.
AnchorBrokenNegationLost(c, targetFile, targetId) ==
    /\ targetId # <<>>
    /\ \/ ~InCache(c, targetFile)
       \/ HasId(c[CacheIndex(c, targetFile)].ids, targetId)

\* Line 219: the anchor of the link is not an identifier of the target.
AnchorBroken(c, targetFile, targetId) ==
    /\ targetId # <<>>
    /\ \/ ~InCache(c, targetFile)
       \/ ~HasId(c[CacheIndex(c, targetFile)].ids, targetId)

\* AnchorExitCode without the assignment of line 220.
AnchorExitCodeUnset(broken, code) == code

\* Lines 219-220: exitCode after the anchor check.
AnchorExitCode(broken, code) == IF broken THEN 1 ELSE code

\* ReportLink that ends the run at the first broken link.
ReportLinkAndStop(message, occ, targetFile) ==
    /\ exitCode' = 1
    /\ errors' = Append(errors, message)
    /\ stderr' = Append(stderr, Line(message, occ))
    /\ existsCalls' = IF targetFile # <<>>
                      THEN existsCalls \cup {targetFile}
                      ELSE existsCalls
    /\ pc' = "done"
    /\ exitStatus' = 1
    /\ UNCHANGED <<cache, readCalls>>

\* Lines 206-215: the target file does not exist.
ReportLink(message, occ, targetFile) ==
    /\ exitCode' = 1
    /\ IF Includes(errors, message)
       THEN UNCHANGED <<errors, stderr>>
       ELSE /\ errors' = Append(errors, message)
            /\ stderr' = Append(stderr, Line(message, occ))
    /\ existsCalls' = IF targetFile # <<>>
                      THEN existsCalls \cup {targetFile}
                      ELSE existsCalls
    /\ UNCHANGED <<cache, pc, exitStatus, readCalls>>

\* Lines 219-224 with broken the condition of line 219.
ReportAnchor(broken, message, occ) ==
    /\ exitCode' = AnchorExitCode(broken, exitCode)
    /\ stderr' = IF broken THEN Append(stderr, Line(message, occ)) ELSE stderr
    /\ UNCHANGED <<errors, pc, exitStatus>>

\* Lines 219-224 for a target that is in the cache already.
CheckCached(link, filePathAbs, occ, targetFile, targetId) ==
    /\ ReportAnchor(AnchorBroken(cache, targetFile, targetId),
                    AnchorMessage(link, filePathAbs), occ)
    /\ UNCHANGED <<cache, existsCalls, readCalls>>

\* Lines 204 and 219-224: readFileIntoCache(targetFile) has given r.
Loaded(link, filePathAbs, occ, targetFile, targetId, r) ==
    /\ existsCalls' = existsCalls \cup {targetFile}
    /\ readCalls' = Append(readCalls, targetFile)
    /\ cache' = r.cache
    /\ IF r.threw
       THEN /\ pc' = "aborted"
            /\ exitStatus' = UncaughtStatus
            /\ stderr' = Append(stderr, ParseError(targetFile))
            /\ UNCHANGED <<exitCode, errors>>
       ELSE ReportAnchor(AnchorBroken(r.cache, targetFile, targetId),
                         AnchorMessage(link, filePathAbs), occ)

\* CheckTarget without the cache lookup of line 202.
CheckTargetNoCacheTest(link, filePathAbs, occ, targetFile, targetId) ==
    IF targetFile # <<>> /\ ExistsSync(targetFile)
    THEN Loaded(link, filePathAbs, occ, targetFile, targetId,
                ReadFileIntoCache(cache, targetFile, basepath))
    ELSE ReportLink(LinkMessage(link, filePathAbs), occ, targetFile)

\* Lines 200-224: the link is checked against its target.
CheckTarget(link, filePathAbs, occ, targetFile, targetId) ==
    IF targetFile # <<>> /\ InCache(cache, targetFile)
    THEN CheckCached(link, filePathAbs, occ, targetFile, targetId)
    ELSE IF targetFile # <<>> /\ ExistsSync(targetFile)
    THEN Loaded(link, filePathAbs, occ, targetFile, targetId,
                ReadFileIntoCache(cache, targetFile, basepath))
    ELSE ReportLink(LinkMessage(link, filePathAbs), occ, targetFile)

\* Lines 197-225: the callback of internalLinks.forEach on one link.
CheckOccurrence(link, filePathAbs, occ) ==
    IF Ignored(link)
    THEN UNCHANGED <<cache, exitCode, errors, stderr, pc, exitStatus,
                     existsCalls, readCalls>>
    ELSE CheckTarget(link, filePathAbs, occ, TargetFile(link), TargetId(link))

CheckEntry(entry) ==
    CheckOccurrence(entry.internalLinks[linkIdx], entry.filePathAbs,
                    <<fileIdx, linkIdx>>)

\* Lines 197-225: one call of the callback of internalLinks.forEach.
CheckLink ==
    /\ pc = "check"
    /\ fileIdx <= Len(forInKeys)
    /\ linkIdx <= Len(CurrentEntry.internalLinks)
    /\ CheckEntry(CurrentEntry)
    /\ linkIdx' = linkIdx + 1
    /\ UNCHANGED <<inputs, walkIdx, forInKeys, fileIdx, firstRun>>

\* NextFile that goes through the links of the same key again.
NextFileRepeats ==
    /\ pc = "check"
    /\ fileIdx <= Len(forInKeys)
    /\ linkIdx > Len(CurrentEntry.internalLinks)
    /\ fileIdx' = fileIdx
    /\ linkIdx' = 1
    /\ UNCHANGED <<inputs, cache, exitCode, errors, stderr, pc, exitStatus, walkIdx,
                   forInKeys, existsCalls, readCalls, firstRun>>

\* Line 191: the for-in loop goes to its next key.
NextFile ==
    /\ pc = "check"
    /\ fileIdx <= Len(forInKeys)
    /\ linkIdx > Len(CurrentEntry.internalLinks)
    /\ fileIdx' = fileIdx + 1
    /\ linkIdx' = 1
    /\ UNCHANGED <<inputs, cache, exitCode, errors, stderr, pc, exitStatus, walkIdx,
                   forInKeys, existsCalls, readCalls, firstRun>>

\* Line 228: process.exit(exitCode)
Exit ==
    /\ pc = "check"
    /\ fileIdx > Len(forInKeys)
    /\ pc' = "done"
    /\ exitStatus' = exitCode
    /\ UNCHANGED <<inputs, cache, exitCode, errors, stderr, walkIdx, forInKeys,
                   fileIdx, linkIdx, existsCalls, readCalls, firstRun>>

Next == WalkFile \/ BeginCheck \/ CheckLink \/ NextFile \/ Exit

Spec == Init /\ [][Next]_vars

\* The script on a corpus whose document a.mdx is malformed, whatever the
\* text of the other document.
InitMalformed ==
    /\ fs \in {f \in [DocFiles -> Bodies] :
                  f[FileA] = <<[kind |-> "bad", val |-> <<>>]>>}
    /\ dir \in Dirs
    /\ basepath \in Dirs
    /\ ignorePattern \in IgnorePatterns
    /\ cache = <<>>
    /\ exitCode = 0
    /\ errors = <<>>
    /\ stderr = <<>>
    /\ pc = "walk"
    /\ exitStatus = Running
    /\ walkIdx = 1
    /\ forInKeys = <<>>
    /\ fileIdx = 1
    /\ linkIdx = 1
    /\ existsCalls = {}
    /\ readCalls = <<>>
    /\ firstRun = NoRun

SpecMalformed == InitMalformed /\ [][Next]_vars

Ended == pc \in {"done", "aborted"}

\* Rerun that finds the cache of the earlier run still filled.
RerunKeepingCache ==
    /\ Ended
    /\ firstRun = NoRun
    /\ firstRun' = [stderr |-> stderr, exitStatus |-> exitStatus]
    /\ exitCode' = 0
    /\ errors' = <<>>
    /\ stderr' = <<>>
    /\ pc' = "walk"
    /\ exitStatus' = Running
    /\ walkIdx' = 1
    /\ forInKeys' = <<>>
    /\ fileIdx' = 1
    /\ linkIdx' = 1
    /\ existsCalls' = {}
    /\ readCalls' = <<>>
    /\ UNCHANGED <<inputs, cache>>

\* The script is run a second time on the same corpus with the same
\* arguments: a new process, whose module state is that of lines 68-75.
Rerun ==
    /\ Ended
    /\ firstRun = NoRun
    /\ firstRun' = [stderr |-> stderr, exitStatus |-> exitStatus]
    /\ cache' = <<>>
    /\ exitCode' = 0
    /\ errors' = <<>>
    /\ stderr' = <<>>
    /\ pc' = "walk"
    /\ exitStatus' = Running
    /\ walkIdx' = 1
    /\ forInKeys' = <<>>
    /\ fileIdx' = 1
    /\ linkIdx' = 1
    /\ existsCalls' = {}
    /\ readCalls' = <<>>
    /\ UNCHANGED inputs

NextTwice == Next \/ Rerun

\* Two runs of the script, one after the other, on one corpus.
SpecTwice == Init /\ [][NextTwice]_vars

(***************************************************************************)
(* Vocabulary of the properties.                                           *)
(***************************************************************************)
DiagnosticKinds == {"Link is broken", "Anchor of link is broken"}

\* The entry of the k-th key of the for-in loop.
EntryAt(k) == cache[CacheIndex(cache, forInKeys[k])]

\* The link occurrences <<file, link>> the callback of line 197 has been
\* called for.
Evaluated ==
    UNION {{<<f, l>> : l \in {k \in 1..Len(EntryAt(f).internalLinks) :
                                  f < fileIdx \/ (f = fileIdx /\ k < linkIdx)}} :
           f \in 1..Len(forInKeys)}

OccLink(o) == EntryAt(o[1]).internalLinks[o[2]]

OccFile(o) == EntryAt(o[1]).filePathAbs

\* The lines of stderr of one kind that are about the occurrence o.
LinesAbout(o, kinds) ==
    {i \in 1..Len(stderr) : stderr[i].occ = o /\ stderr[i].kind \in kinds}

\* The file exists and, if it is a document, it renders.
Renders(path) ==
    path \in DocFiles => ~RenderFails(RemoveMarkdownCodeBlocks(fs[path]))

\* The identifiers the text of a file declares: its heading slugs and its
\* id / name attributes.
DeclaredIds(path) ==
    IF path \in DocFiles /\ Renders(path)
    THEN LET markdown == RemoveMarkdownCodeBlocks(fs[path])
         IN  FillIds(FillIds({}, JsxAttrs(markdown)), MarkdownAttrs(markdown))
    ELSE {}

\* The raw link string matches the configured ignore pattern.
RawIgnored(link) == ignorePattern # NoPattern /\ IsMatch(link.raw, ignorePattern)

\* The target is neither in the keys of the for-in loop nor missing: it is
\* loaded while the checking pass runs.
LoadedLazily(path) ==
    /\ InCache(cache, path)
    /\ \A k \in 1..Len(forInKeys) : forInKeys[k] # path

\* The directory that holds the file of an absolute path.
Dirname(abs) == SubSeq(abs, 1, MaxOf(Positions(abs, "/")) - 1)

\* The absolute form of a base path.
AbsoluteBase(b) == IF b = <<".">> THEN Cwd ELSE Cwd \o <<"/">> \o b

(***************************************************************************)
(* C1: no diagnostic is emitted for a link occurrence whose raw link       *)
(* string, as written in the document, matches the ignore pattern.         *)
(***************************************************************************)
C1_IgnoredRawNeverReported ==
    \A o \in Evaluated :
        RawIgnored(OccLink(o)) => LinesAbout(o, DiagnosticKinds) = {}

(***************************************************************************)
(* C2: an internal link occurrence whose target file exists and whose      *)
(* fragment, if any, is a declared identifier of that file gets no         *)
(* diagnostic, whether the target was cached by the walk or loaded lazily. *)
(***************************************************************************)
C2_ExistingTargetNoDiagnostic ==
    \A o \in Evaluated :
        LET link == OccLink(o)
        IN  (/\ ExistsSync(TargetFile(link))
             /\ \/ TargetId(link) = <<>>
                \/ TargetId(link) \in DeclaredIds(TargetFile(link)))
            => LinesAbout(o, DiagnosticKinds) = {}

C2_Witness ==
    /\ pc = "done"
    /\ \E o \in Evaluated :
          LET link == OccLink(o)
          IN  /\ ~Ignored(link)
              /\ LoadedLazily(TargetFile(link))
              /\ TargetId(link) # <<>>
              /\ TargetId(link) \in DeclaredIds(TargetFile(link))

(***************************************************************************)
(* C3 as stated: for every pair of a missing target file and a referencing *)
(* file with a checked link to it, exactly one 'Link is broken' line.      *)
(***************************************************************************)
LinkLinesOfFile(o) ==
    {i \in 1..Len(stderr) :
        /\ stderr[i].kind = "Link is broken"
        /\ stderr[i].file = OccFile(o)
        /\ SplitOn(stderr[i].link, "#")[1] = TargetFile(OccLink(o))}

C3_OneLinePerMissingFile ==
    \A o \in Evaluated :
        (~Ignored(OccLink(o)) /\ ~ExistsSync(TargetFile(OccLink(o))))
        => Cardinality(LinkLinesOfFile(o)) = 1

(***************************************************************************)
(* C3 amended: for every pair of a resolved absolute target, fragment      *)
(* included, whose file is missing and a referencing file with a checked   *)
(* link resolving to it, exactly one 'Link is broken' line is emitted,     *)
(* however many occurrences resolve to that target.                        *)
(***************************************************************************)
LinkLinesOfTarget(o) ==
    {i \in 1..Len(stderr) :
        /\ stderr[i].kind = "Link is broken"
        /\ stderr[i].file = OccFile(o)
        /\ stderr[i].link = OccLink(o).absolute}

C3_OneLinePerMissingTarget ==
    \A o \in Evaluated :
        (~Ignored(OccLink(o)) /\ ~ExistsSync(TargetFile(OccLink(o))))
        => Cardinality(LinkLinesOfTarget(o)) = 1

C3_Witness ==
    \E o1 \in Evaluated, o2 \in Evaluated :
        /\ o1[1] = o2[1]
        /\ o1[2] < o2[2]
        /\ OccLink(o1).absolute = OccLink(o2).absolute
        /\ ~Ignored(OccLink(o1))
        /\ ~ExistsSync(TargetFile(OccLink(o1)))

(***************************************************************************)
(* C4: every checked occurrence whose target file exists but whose         *)
(* fragment is not a declared identifier of it gets one 'Anchor of link is *)
(* broken' line of its own.                                                *)
(***************************************************************************)
C4_EveryBrokenAnchorReported ==
    \A o \in Evaluated :
        LET link == OccLink(o)
        IN  (/\ ~Ignored(link)
             /\ ExistsSync(TargetFile(link))
             /\ Renders(TargetFile(link))
             /\ TargetId(link) # <<>>
             /\ TargetId(link) \notin DeclaredIds(TargetFile(link)))
            => Cardinality(LinesAbout(o, {"Anchor of link is broken"})) = 1

(***************************************************************************)
(* C5: when the run ends by process.exit, the exit status is 1 if a        *)
(* 'Link is broken' or 'Anchor of link is broken' line was emitted and 0   *)
(* if none was.                                                            *)
(***************************************************************************)
C5_ExitStatus ==
    pc = "done" =>
        IF \E i \in 1..Len(stderr) : stderr[i].kind \in DiagnosticKinds
        THEN exitStatus = 1
        ELSE exitStatus = 0

C5_Witness ==
    /\ pc = "done"
    /\ exitStatus = 1
    /\ \A i \in 1..Len(stderr) : stderr[i].kind = "Anchor of link is broken"

(***************************************************************************)
(* C6: when the run ends, every internal link of every record of the       *)
(* cache has been evaluated, those of lazily inserted records included.    *)
(***************************************************************************)
C6_AllRecordsChecked ==
    pc = "done" =>
        \A i \in 1..Len(cache) :
            \A j \in 1..Len(cache[i].internalLinks) :
                \E o \in Evaluated :
                    OccFile(o) = cache[i].filePathAbs /\ o[2] = j

(***************************************************************************)
(* C7: a link string that starts with http:// or https:// or has the form  *)
(* scheme:... is never among the internalLinks of a record; existence      *)
(* checks, lazy loads and diagnostics only ever concern internal links.    *)
(***************************************************************************)
C7_SchemeLinksNeverInternal ==
    /\ \A i \in 1..Len(cache) :
          \A j \in 1..Len(cache[i].internalLinks) :
              LET raw == cache[i].internalLinks[j].raw
              IN  ~IsHttp(raw) /\ ~IsScheme(raw)
    /\ \A i \in 1..Len(stderr) :
          stderr[i].kind \in DiagnosticKinds =>
              stderr[i].link \notin {HttpLink, MailLink}
    /\ \A p \in existsCalls :
          \E i \in 1..Len(cache) :
              \E j \in 1..Len(cache[i].internalLinks) :
                  TargetFile(cache[i].internalLinks[j]) = p

C7_Witness ==
    /\ pc = "done"
    /\ \E i \in 1..Len(cache) :
          LET body == fs[cache[i].filePathAbs]
          IN  /\ \E k \in 1..Len(body) : body[k] = [kind |-> "link", val |-> HttpLink]
              /\ \E k \in 1..Len(body) : body[k] = [kind |-> "link", val |-> MailLink]
              /\ cache[i].internalLinks = <<>>
              /\ cache[i].externalLinks = <<HttpLink>>

(***************************************************************************)
(* C8 as stated: a root-relative link without document extension, trailing *)
(* slash or fragment resolves to the base path joined with the link, with  *)
(* the document extension appended.                                        *)
(***************************************************************************)
PlainRootRelative(raw) ==
    /\ IsRootRelativeLink(raw)
    /\ ~HasDocExt(raw)
    /\ ~EndsInSlash(raw)
    /\ Positions(raw, "#") = {}

C8_RootRelativeGetsExtension ==
    \A i \in 1..Len(cache) :
        \A j \in 1..Len(cache[i].internalLinks) :
            LET link == cache[i].internalLinks[j]
            IN  PlainRootRelative(link.raw) =>
                    link.absolute \in
                        {AbsoluteBase(basepath) \o link.raw \o <<".", ext>> :
                            ext \in {"mdx", "md"}}

(***************************************************************************)
(* C8 amended: a root-relative link without document extension, trailing   *)
(* slash or fragment resolves to the absolute form of the base path joined *)
(* with the link, with nothing appended: '/guide/intro' with basepath      *)
(* 'docs' resolves to the absolute form of 'docs/guide/intro'.             *)
(***************************************************************************)
C8_RootRelativeUnderBase ==
    \A i \in 1..Len(cache) :
        \A j \in 1..Len(cache[i].internalLinks) :
            LET link == cache[i].internalLinks[j]
            IN  PlainRootRelative(link.raw) =>
                    link.absolute = AbsoluteBase(basepath) \o link.raw

C8_Witness ==
    /\ basepath = <<"d">>
    /\ \E i \in 1..Len(cache) :
          \E j \in 1..Len(cache[i].internalLinks) :
              /\ PlainRootRelative(cache[i].internalLinks[j].raw)
              /\ cache[i].internalLinks[j].absolute = <<"/", "w", "/", "d", "/", "a">>

(***************************************************************************)
(* C9: whatever the form of the path of the referencing document, a        *)
(* relative link resolves against the directory that holds the document,   *)
(* and './s/' resolves to the index document of that sub-directory.        *)
(***************************************************************************)
IsRelativeLink(raw) ==
    ~IsAnchorLink(raw) /\ ~IsRootRelativeLink(raw) /\ ~IsHttp(raw) /\ ~IsScheme(raw)

C9_RelativeAgainstContainingDir ==
    \A i \in 1..Len(cache) :
        \A j \in 1..Len(cache[i].internalLinks) :
            LET link == cache[i].internalLinks[j]
                here == Dirname(cache[i].filePathAbs)
            IN  /\ IsRelativeLink(link.raw) =>
                       link.absolute =
                           PathResolve(here \o <<"/">> \o IndexRewrite(link.raw))
                /\ link.raw = DirLink =>
                       link.absolute = here \o <<"/", "s", "/">> \o IndexDoc

(***************************************************************************)
(* C10: an anchor-only link '#x' of document D has D itself as target file *)
(* and x as anchor, never gets a 'Link is broken' line, and gets an        *)
(* 'Anchor of link is broken' line exactly if x is not a declared          *)
(* identifier of D.                                                        *)
(***************************************************************************)
C10_AnchorOnlyLink ==
    \A o \in Evaluated :
        LET link == OccLink(o)
        IN  IsAnchorLink(link.raw) =>
                /\ TargetFile(link) = OccFile(o)
                /\ TargetId(link) = Tail(link.raw)
                /\ LinesAbout(o, {"Link is broken"}) = {}
                /\ (LinesAbout(o, {"Anchor of link is broken"}) # {})
                       <=> (TargetId(link) \notin DeclaredIds(OccFile(o)))

PopulatedOnce ==
    \A i \in 1..Len(readCalls) :
        \A j \in 1..Len(readCalls) :
            (i < j /\ IsDocExt(FileExt(readCalls[i])))
            => PathResolve(readCalls[i]) # PathResolve(readCalls[j])

RecordsKept ==
    \A i \in 1..Len(cache) : i <= Len(cache') /\ cache'[i] = cache[i]

C12_PopulatedAtMostOnce == []PopulatedOnce /\ [][RecordsKept]_vars

C12_Witness ==
    /\ pc = "done"
    /\ \E o1 \in Evaluated, o2 \in Evaluated :
          /\ o1[1] = o2[1]
          /\ o1[2] < o2[2]
          /\ ~Ignored(OccLink(o1))
          /\ ~Ignored(OccLink(o2))
          /\ TargetFile(OccLink(o1)) = TargetFile(OccLink(o2))
          /\ LoadedLazily(TargetFile(OccLink(o1)))

(***************************************************************************)
(* C13: if the rendering of a document fails, in the walk or in a lazy     *)
(* load, the run ends there by the uncaught error, its last line names     *)
(* the file, its status is a failing one, and no 'Link is broken' or       *)
(* 'Anchor of link is broken' line has been written in the run.            *)
(***************************************************************************)
\* The calls of readFileIntoCache whose document does not render.
FailedReads ==
    {i \in 1..Len(readCalls) :
        IsDocExt(FileExt(readCalls[i])) /\ ~Renders(PathResolve(readCalls[i]))}

AbortsNamingFile ==
    /\ FailedReads # {} =>
           /\ FailedReads = {Len(readCalls)}
           /\ pc = "aborted"
    /\ pc = "aborted" =>
           /\ FailedReads # {}
           /\ exitStatus # 0
           /\ stderr # <<>>
           /\ Last(stderr).kind = "Unable to parse mdx to jsx"
           /\ Last(stderr).file = Last(readCalls)

NoPartialResults ==
    pc = "aborted" =>
        \A i \in 1..Len(stderr) : stderr[i].kind \notin DiagnosticKinds

C13_AbortWithoutDiagnostics == AbortsNamingFile /\ NoPartialResults

(***************************************************************************)
(* C14: a checked occurrence with a fragment whose target file is missing  *)
(* is reported as a broken file and gets no anchor line; one whose target  *)
(* file exists gets no file line and gets an anchor line exactly if the    *)
(* fragment is not a declared identifier of the target, cached or just     *)
(* loaded; no occurrence gets lines of both kinds.                         *)
(***************************************************************************)
C14_FileCheckThenAnchorCheck ==
    \A o \in Evaluated :
        LET link == OccLink(o)
            targetFile == TargetFile(link)
        IN  /\ (/\ ~Ignored(link)
                /\ TargetId(link) # <<>>
                /\ ~ExistsSync(targetFile))
               => /\ LinkLinesOfTarget(o) # {}
                  /\ LinesAbout(o, {"Anchor of link is broken"}) = {}
            /\ (/\ ~Ignored(link)
                /\ TargetId(link) # <<>>
                /\ ExistsSync(targetFile)
                /\ Renders(targetFile))
               => /\ LinesAbout(o, {"Link is broken"}) = {}
                  /\ (LinesAbout(o, {"Anchor of link is broken"}) # {})
                         <=> (TargetId(link) \notin DeclaredIds(targetFile))
            /\ \/ LinesAbout(o, {"Link is broken"}) = {}
               \/ LinesAbout(o, {"Anchor of link is broken"}) = {}

(***************************************************************************)
(* C15: a step that writes a 'Link is broken' or 'Anchor of link is        *)
(* broken' line leaves the checking pass running; the pass takes the       *)
(* occurrences one at a time and never goes back; and when the run ends    *)
(* by process.exit, every internal link of every document the walk found   *)
(* has been evaluated, with the exit status the only trace of findings.    *)
(***************************************************************************)
WalkedDocs ==
    {PathResolve(PathJoin(dir, filePaths[i])) :
        i \in {k \in 1..Len(filePaths) : IsDocExt(FileExt(filePaths[k]))}}

AllWalkedEvaluated ==
    pc = "done" =>
        /\ exitStatus = exitCode
        /\ \A p \in WalkedDocs :
              /\ InCache(cache, p)
              /\ \A j \in 1..Len(cache[CacheIndex(cache, p)].internalLinks) :
                    \E o \in Evaluated : OccFile(o) = p /\ o[2] = j

FindingGoesOn ==
    (Len(stderr') > Len(stderr) /\ Last(stderr').kind \in DiagnosticKinds)
    => (pc' = "check" /\ exitStatus' = Running)

OneAtATime ==
    pc = "check" =>
        /\ Evaluated \subseteq Evaluated'
        /\ Cardinality(Evaluated' \ Evaluated) <= 1

C15_FindingsNeverStop ==
    []AllWalkedEvaluated /\ [][FindingGoesOn /\ OneAtATime]_vars

C15_Witness ==
    /\ pc = "done"
    /\ exitStatus = 1
    /\ \E o1 \in Evaluated, o2 \in Evaluated :
          /\ o1[1] < o2[1]
          /\ LinesAbout(o1, {"Link is broken"}) # {}
          /\ LinesAbout(o2, {"Anchor of link is broken"}) # {}

(***************************************************************************)
(* C16: on a corpus all of whose documents render, links in cycles and     *)
(* links of a document to itself included, the run terminates: every step  *)
(* lowers a well-founded measure, a run that has not ended by process.exit *)
(* always has a next step, no run ends by the uncaught error, and no file  *)
(* is read into the cache more than once.                                  *)
(***************************************************************************)
AllRender == \A p \in DocFiles : Renders(p)

\* The calls of readFileIntoCache that pass line 147 and read the file.
Loads == {k \in 1..Len(readCalls) : IsDocExt(FileExt(readCalls[k]))}

\* Every file read has left a record of its own: as many records, under
\* different keys, as files read.
LoadsOnce ==
    /\ Cardinality(Loads) = Len(cache)
    /\ \A i \in 1..Len(cache) :
          \A j \in 1..Len(cache) :
              i # j => cache[i].filePathAbs # cache[j].filePathAbs

\* The measure of what a run has left: the phase, then the entries of the
\* loop of the phase that are left, then the links of the entry that are.
MeasureAt(p, w, keys, f, l, c) ==
    IF p = "walk" THEN <<2, Len(filePaths) + 1 - w, 0>>
    ELSE IF p = "check"
    THEN <<1, Len(keys) + 1 - f,
           IF f <= Len(keys)
           THEN Len(c[CacheIndex(c, keys[f])].internalLinks) + 1 - l
           ELSE 0>>
    ELSE <<0, 0, 0>>

Measure == MeasureAt(pc, walkIdx, forInKeys, fileIdx, linkIdx, cache)

Less(m, n) ==
    \/ m[1] < n[1]
    \/ m[1] = n[1] /\ m[2] < n[2]
    \/ m[1] = n[1] /\ m[2] = n[2] /\ m[3] < n[3]

\* Every step lowers the measure.
Decreases ==
    Less(MeasureAt(pc', walkIdx', forInKeys', fileIdx', linkIdx', cache'), Measure)

\* The guard of one of the steps of the script holds.
CanStep ==
    \/ pc = "walk"
    \/ /\ pc = "check"
       /\ fileIdx <= Len(forInKeys) => InCache(cache, forInKeys[fileIdx])

RunGoesOn ==
    AllRender =>
        /\ LoadsOnce
        /\ Measure \in Nat \X Nat \X Nat
        /\ pc # "aborted"
        /\ pc = "done" \/ CanStep

C16_Terminates == []RunGoesOn /\ [][Decreases]_vars

\* The internal links of the record of file from go to the file to.
LinksTo(from, to) ==
    /\ InCache(cache, from)
    /\ \E j \in 1..Len(cache[CacheIndex(cache, from)].internalLinks) :
          TargetFile(cache[CacheIndex(cache, from)].internalLinks[j]) = to

\* A finished run on two documents that link to each other, one of them
\* loaded lazily.
C16_Witness ==
    /\ pc = "done"
    /\ LinksTo(FileA, FileB)
    /\ LinksTo(FileB, FileA)
    /\ LoadedLazily(FileA)

(***************************************************************************)
(* C17: every key of the cache is the absolute path of an existing file    *)
(* with extension md or mdx; a call of readFileIntoCache on a file with    *)
(* another extension leaves no record; and a checked link without          *)
(* fragment to an existing file that is no document gets no diagnostic.    *)
(***************************************************************************)
IsFile(p) == \E i \in 1..Len(AllFiles) : AllFiles[i] = p

\* The path ends in '.md' or '.mdx'.
IsDocumentPath(p) ==
    /\ Len(p) >= 2
    /\ p[Len(p) - 1] = "."
    /\ p[Len(p)] \in {"md", "mdx"}

C17_OnlyDocumentsCached ==
    /\ \A i \in 1..Len(cache) :
          /\ IsDocumentPath(cache[i].filePathAbs)
          /\ IsFile(cache[i].filePathAbs)
          /\ cache[i].filePathAbs = PathResolve(cache[i].filePath)
    /\ \A k \in 1..Len(readCalls) :
          ~IsDocumentPath(readCalls[k])
          => ~InCache(cache, PathResolve(readCalls[k]))
    /\ \A o \in Evaluated :
          LET link == OccLink(o)
          IN  (/\ ~Ignored(link)
               /\ TargetId(link) = <<>>
               /\ IsFile(TargetFile(link))
               /\ ~IsDocumentPath(TargetFile(link)))
              => LinesAbout(o, DiagnosticKinds) = {}

C17_Witness ==
    /\ pc = "done"
    /\ exitStatus = 0
    /\ FileP \in existsCalls
    /\ \E k \in 1..Len(readCalls) : readCalls[k] = FileP
    /\ ~InCache(cache, FileP)
    /\ \E o \in Evaluated :
          /\ ~Ignored(OccLink(o))
          /\ OccLink(o).absolute = FileP

(***************************************************************************)
(* C18: a step keeps every record of the cache; a record it adds or        *)
(* changes is the record keyed by the absolute path of the file the step   *)
(* loads, and in the checking pass that file is the target of the link     *)
(* being checked, which is not an ignored one.                             *)
(***************************************************************************)
\* The step calls readFileIntoCache, on a file of this absolute path.
LoadsFile(abs) ==
    /\ Len(readCalls') = Len(readCalls) + 1
    /\ abs = PathResolve(Last(readCalls'))

LoadOfCheckedTarget(abs) ==
    pc = "check" =>
        /\ ~Ignored(CurrentEntry.internalLinks[linkIdx])
        /\ abs = TargetFile(CurrentEntry.internalLinks[linkIdx])

OnlyLoadedRecordChanges ==
    /\ \A i \in 1..Len(cache) :
          \E j \in 1..Len(cache') : cache'[j].filePathAbs = cache[i].filePathAbs
    /\ \A j \in 1..Len(cache') :
          (\A i \in 1..Len(cache) : cache[i] # cache'[j])
          => /\ LoadsFile(cache'[j].filePathAbs)
             /\ LoadOfCheckedTarget(cache'[j].filePathAbs)

C18_LoadFillsOnlyItsRecord == [][OnlyLoadedRecordChanges]_vars

C18_Witness ==
    /\ pc = "done"
    /\ LoadedLazily(FileA)
    /\ cache[CacheIndex(cache, FileA)].ids # {}
    /\ InCache(cache, FileB)
    /\ cache[CacheIndex(cache, FileB)].internalLinks # <<>>

====
